---- MODULE Spec2Model ----
(***************************************************************************)
(* Model of the consensus-set consistency checks of                        *)
(* modules/consensus/consistency.go: the checksum over the consensus       *)
(* database, the siafund count check, the delayed siacoin output check,    *)
(* the revert/apply check and checkConsistency that runs them in order.    *)
(*                                                                         *)
(* The database transaction tx is a sequence of buckets in creation order; *)
(* a bucket is a name and a sequence of <<key, value>> entries in          *)
(* insertion order.  Iteration (ForEach) presents buckets and entries in   *)
(* byte-sorted order, as bolt does.                                        *)
(***************************************************************************)
EXTENDS Integers, Sequences, FiniteSets, TLC

\* Bounds of the model.
MaxHeight == 3
MaxEdits == 2

\* Scaled protocol constants (types package).
SiafundCount == 3
InitialCoinbase == 5
MinimumCoinbase == 3
\* Base of one encoded byte, and the number of values of a BlockHeight
\* (uint64 in the source, scaled to the two bytes a height is encoded in).
ByteBase == 256
\* Number of distinct unlock hashes an output can carry.
UnlockHashes == 2
BlockHeightModulus == ByteBase * ByteBase
\* The values types.MaturityDelay takes in the testing and the dev build.
TestingMaturityDelay == 3
DevMaturityDelay == 10

VARIABLES
    MaturityDelay,  \* types.MaturityDelay, set once at start-up by the build
    DEBUG,          \* build.DEBUG, set once at start-up by the build
    tx,             \* the consensus database inside the open transaction
    fault,          \* what the fork engine does wrong, "none" if nothing
    edits,          \* number of direct edits made to the store
    last,           \* the last operation and the transaction it started from
    result,         \* what the last call of checkConsistency did, or NoCall
    entropyChan,    \* crypto: the blocks of entropy buffered in entropyChan
    worker,         \* crypto: the goroutines that call the rand functions
    closed,         \* crypto: whether closeChan has been closed
    cm,             \* contractmanager: sectorSalt and storageFolders in memory
    disk,           \* contractmanager: the settings file, or NoFile
    hostLast        \* contractmanager: the last call and what it did

\* The variables of the consensus set.
consensusVars == <<MaturityDelay, DEBUG, tx, fault, edits, last, result>>

\* The variables of the entropy pool of package crypto.
randVars == <<entropyChan, worker, closed>>

\* The variables of the contract manager of the host.
hostVars == <<cm, disk, hostLast>>

vars == <<consensusVars, randVars, hostVars>>

\* The zero value of crypto.Hash, and of a slice.
ZeroSalt == 0
NoFolders == 0

\* The settings file is not there.
NoFile == [exists |-> FALSE, SectorSalt |-> ZeroSalt, StorageFolders |-> NoFolders]

\* A ContractManager as allocated: sectorSalt and storageFolders are zero.
NewContractManager == [sectorSalt |-> ZeroSalt, storageFolders |-> NoFolders]

\* No call has been made on the contract manager.
NoHostCall ==
    [op |-> "none", err |-> "nil", cm |-> NewContractManager, disk |-> NoFile,
     salted |-> FALSE, saved |-> FALSE, wal |-> <<>>, loaded |-> FALSE]

\* The contract manager when it is not in use.
HostIdle ==
    /\ cm = NewContractManager
    /\ disk = NoFile
    /\ hostLast = NoHostCall

\* The entropy pool when no goroutine uses it.
RandIdle ==
    /\ entropyChan = <<>>
    /\ worker = <<>>
    /\ closed = FALSE

----------------------------------------------------------------------------
\* Bucket names.  A fixed bucket's name is <<string>>; a prefixed bucket's
\* name is the prefix followed by the encoded height.

BlockHeight == <<"BlockHeight">>
BlockMap == <<"BlockMap">>
BlockPath == <<"BlockPath">>
FileContracts == <<"FileContracts">>
SiacoinOutputs == <<"SiacoinOutputs">>
SiafundOutputs == <<"SiafundOutputs">>
SiafundPool == <<"SiafundPool">>
prefixDSCO == "dsco_"
prefixFCEX == "fcex_"

\* encoding.Marshal of a BlockHeight: little-endian bytes.
Marshal(height) == <<height % ByteBase, (height \div ByteBase) % ByteBase>>

\* encoding.Unmarshal of the bytes of a name into a BlockHeight.
UnmarshalHeight(bytes) == bytes[1] + ByteBase * bytes[2]

\* A stored siacoin or siafund output is the encoding of its Value and its
\* UnlockHash; encoding.Unmarshal gives the fields back.
MarshalOutput(value, unlockHash) == value * UnlockHashes + unlockHash
UnmarshalOutput(bytes) ==
    [Value |-> bytes \div UnlockHashes, UnlockHash |-> bytes % UnlockHashes]

dscoName(height) == <<prefixDSCO>> \o Marshal(height)
fcexName(height) == <<prefixFCEX>> \o Marshal(height)

\* strings.HasPrefix(string(name), string(prefix))
HasPrefix(name, prefix) == name[1] = prefix

\* Position of a name's leading string in byte order.
NameRank(s) ==
    CASE s = "BlockHeight" -> 1
      [] s = "BlockMap" -> 2
      [] s = "BlockPath" -> 3
      [] s = "FileContracts" -> 4
      [] s = "SiacoinOutputs" -> 5
      [] s = "SiafundOutputs" -> 6
      [] s = "SiafundPool" -> 7
      [] s = "dsco_" -> 8
      [] s = "fcex_" -> 9

\* Byte order of two bucket names.
NameLess(a, b) ==
    IF a[1] # b[1]
    THEN NameRank(a[1]) < NameRank(b[1])
    ELSE /\ Len(a) = 3
         /\ \/ a[2] < b[2]
            \/ a[2] = b[2] /\ a[3] < b[3]

----------------------------------------------------------------------------
\* The store.

\* tx.Bucket(name): the bucket of that name.
Bucket(t, name) == t[CHOOSE i \in 1..Len(t) : t[i].name = name]

HasBucket(t, name) == \E i \in 1..Len(t) : t[i].name = name

\* bolt's Bucket.ForEach: the entries in byte-sorted key order.
ForEach(b) == SortSeq(b.kv, LAMBDA x, y : x[1] < y[1])

\* bolt's Tx.ForEach: the buckets in byte-sorted name order.
TxForEach(t) == SortSeq(t, LAMBDA x, y : NameLess(x.name, y.name))

Keys(b) == {b.kv[i][1] : i \in 1..Len(b.kv)}

\* Bucket.Get(key); only used on keys that are present.
Get(b, key) == b.kv[CHOOSE i \in 1..Len(b.kv) : b.kv[i][1] = key][2]

\* Bucket.Put(key, value): overwrite in place, or insert.
Put(b, key, value) ==
    IF key \in Keys(b)
    THEN [b EXCEPT !.kv = [i \in 1..Len(b.kv) |->
                             IF b.kv[i][1] = key THEN <<key, value>> ELSE b.kv[i]]]
    ELSE [b EXCEPT !.kv = Append(b.kv, <<key, value>>)]

\* Bucket.Delete(key).
Delete(b, key) == [b EXCEPT !.kv = SelectSeq(b.kv, LAMBDA e : e[1] # key)]

\* The transaction with the bucket named as b replaced by b.
Update(t, b) ==
    [i \in 1..Len(t) |-> IF t[i].name = b.name THEN b ELSE t[i]]

\* Tx.CreateBucket and Tx.DeleteBucket.
CreateBucket(t, name, kv) == Append(t, [name |-> name, kv |-> kv])
DeleteBucket(t, name) == SelectSeq(t, LAMBDA b : b.name # name)

----------------------------------------------------------------------------
\* Errors, by their messages.

Nil == "nil"
errSiafundCount == "wrong number if siafunds in the consensus set"
errRepeatMap == "repeat dsco map"
errRepeatOutput == "repeat delayed siacoin output"
errBucketTotal == "total number of coins in the delayed output bucket is incorrect"
errMissingBucket == "missing a dsco bucket"
errTooManyBuckets == "too many dsco buckets"
errRevertMismatch == "consensus checksum mismatch after reverting"
errReapplyMismatch == "consensus checksum mismatch after re-applying"
errNilItem == "requested item does not exist"
errFork == "fork engine error"

----------------------------------------------------------------------------
\* consensusChecksum.

\* As PushEntries, but only the key of an entry is pushed.
RECURSIVE PushEntriesKeys(_, _)
PushEntriesKeys(tree, entries) ==
    IF Len(entries) = 0
    THEN tree
    ELSE PushEntriesKeys(tree \o <<Head(entries)[1]>>, Tail(entries))

\* tree.Push(k); tree.Push(v) for every entry, in the order given.
RECURSIVE PushEntries(_, _)
PushEntries(tree, entries) ==
    IF Len(entries) = 0
    THEN tree
    ELSE PushEntries(tree \o <<Head(entries)[1], Head(entries)[2]>>, Tail(entries))

\* As PushBuckets, but the entries are pushed in the order they were
\* inserted in, not in key order.
RECURSIVE PushBucketsUnsorted(_, _)
PushBucketsUnsorted(tree, bs) ==
    IF Len(bs) = 0
    THEN tree
    ELSE PushBucketsUnsorted(PushEntries(tree, Head(bs).kv), Tail(bs))

\* The ForEach of every bucket of bs in turn, pushing into the same tree.
RECURSIVE PushBuckets(_, _)
PushBuckets(tree, bs) ==
    IF Len(bs) = 0
    THEN tree
    ELSE PushBuckets(PushEntries(tree, ForEach(Head(bs))), Tail(bs))

\* tree.Root(): the Merkle root, taken to be collision free, is identified
\* with the sequence of leaves it commits to.
Root(tree) == tree

\* As consensusSetBuckets, without the SiacoinOutputs bucket.
consensusSetBucketsNoCoins(t) ==
    << Bucket(t, BlockPath), Bucket(t, FileContracts),
       Bucket(t, SiafundOutputs), Bucket(t, SiafundPool) >>

consensusSetBuckets(t) ==
    << Bucket(t, BlockPath), Bucket(t, SiacoinOutputs), Bucket(t, FileContracts),
       Bucket(t, SiafundOutputs), Bucket(t, SiafundPool) >>

\* The buckets the second loop of consensusChecksum does not skip.
IsPrefixed(b) == HasPrefix(b.name, prefixDSCO) \/ HasPrefix(b.name, prefixFCEX)

consensusChecksum(t) ==
    LET fixed == PushBuckets(<<>>, consensusSetBuckets(t))
    IN  Root(PushBuckets(fixed, SelectSeq(TxForEach(t), IsPrefixed)))

\* A failing read: the ForEach of the bucket named failing pushes its first
\* pushed entries and returns this error.
errRead == "read error"

\* panic(err).
Panic == "panic"

\* Bucket.ForEach on bucket b when the read of the bucket named failing fails.
ForEachFailing(tree, b, failing, pushed) ==
    IF b.name = failing
    THEN [tree |-> PushEntries(tree, SubSeq(ForEach(b), 1, pushed)), err |-> errRead]
    ELSE [tree |-> PushEntries(tree, ForEach(b)), err |-> Nil]

\* The first loop of consensusChecksum: an error is a panic when debug is
\* set, and is dropped otherwise, the loop going on to the next bucket.
RECURSIVE PushFixedFailing(_, _, _, _, _)
PushFixedFailing(tree, bs, failing, pushed, debug) ==
    IF Len(bs) = 0
    THEN [tree |-> tree, panic |-> FALSE]
    ELSE LET r == ForEachFailing(tree, Head(bs), failing, pushed)
         IN  IF debug /\ r.err # Nil
             THEN [tree |-> r.tree, panic |-> TRUE]
             ELSE PushFixedFailing(r.tree, Tail(bs), failing, pushed, debug)

\* tx.ForEach over the prefixed buckets: it stops at the first error and
\* returns it.
RECURSIVE TxForEachFailing(_, _, _, _)
TxForEachFailing(tree, bs, failing, pushed) ==
    IF Len(bs) = 0
    THEN [tree |-> tree, err |-> Nil]
    ELSE LET r == ForEachFailing(tree, Head(bs), failing, pushed)
         IN  IF r.err # Nil
             THEN r
             ELSE TxForEachFailing(r.tree, Tail(bs), failing, pushed)

\* consensusChecksum when the read of one covered bucket fails: a panic, or
\* the hash the function returns.
consensusChecksumFailing(t, failing, pushed, debug) ==
    LET fixed == PushFixedFailing(<<>>, consensusSetBuckets(t), failing, pushed, debug)
        rest == TxForEachFailing(fixed.tree, SelectSeq(TxForEach(t), IsPrefixed),
                                 failing, pushed)
    IN  IF fixed.panic \/ (debug /\ rest.err # Nil)
        THEN [outcome |-> Panic, sums |-> <<>>]
        ELSE [outcome |-> Nil, sums |-> <<Root(rest.tree)>>]

----------------------------------------------------------------------------
\* checkSiacoinCount, checkSiafundCount.

\* As checkSiacoinCount, but a store with no siacoin output is an error.
checkSiacoinCountCounts(t) ==
    IF Bucket(t, SiacoinOutputs).kv = <<>> THEN "wrong number of siacoins" ELSE Nil

checkSiacoinCount(t) == Nil

RECURSIVE AddValues(_, _)
AddValues(total, entries) ==
    IF Len(entries) = 0
    THEN total
    ELSE AddValues(total + UnmarshalOutput(Head(entries)[2]).Value, Tail(entries))

\* As checkSiafundCount, but only a total below the count is an error.
checkSiafundCountBelow(t) ==
    LET total == AddValues(0, ForEach(Bucket(t, SiafundOutputs)))
    IN  IF total < SiafundCount THEN errSiafundCount ELSE Nil

checkSiafundCount(t) ==
    LET total == AddValues(0, ForEach(Bucket(t, SiafundOutputs)))
    IN  IF total # SiafundCount THEN errSiafundCount ELSE Nil

----------------------------------------------------------------------------
\* checkDSCOs.

\* types.CalculateCoinbase.
CalculateCoinbase(height) ==
    LET base == InitialCoinbase - height
    IN  IF height > InitialCoinbase \/ base < MinimumCoinbase
        THEN MinimumCoinbase
        ELSE base

\* height - types.MaturityDelay on the unsigned BlockHeight.
SubMaturityDelay(height) == (height - MaturityDelay) % BlockHeightModulus

\* blockHeight(tx).
blockHeight(t) == Get(Bucket(t, BlockHeight), 0)

\* The inner b.ForEach of checkDSCOs over the entries of one bucket.
RECURSIVE scanOutputs(_, _, _)
scanOutputs(entries, idMap, total) ==
    IF Len(entries) = 0
    THEN [err |-> Nil, idMap |-> idMap, total |-> total]
    ELSE LET id == Head(entries)[1]
         IN  IF id \in idMap
             THEN [err |-> errRepeatOutput, idMap |-> idMap, total |-> total]
             ELSE scanOutputs(Tail(entries), idMap \cup {id},
                              total + UnmarshalOutput(Head(entries)[2]).Value)

\* The callback of tx.ForEach in checkDSCOs on one prefixed bucket.
scanBucket(b, dscoTracker, idMap) ==
    LET height == UnmarshalHeight(SubSeq(b.name, 2, Len(b.name)))
        inner == scanOutputs(ForEach(b), idMap, 0)
        minimumValue == CalculateCoinbase(SubMaturityDelay(height))
    IN  IF height \in dscoTracker
        THEN [err |-> errRepeatMap, dscoTracker |-> dscoTracker, idMap |-> idMap]
        ELSE IF inner.err # Nil
        THEN [err |-> inner.err, dscoTracker |-> dscoTracker \cup {height}, idMap |-> inner.idMap]
        ELSE IF inner.total < minimumValue
        THEN [err |-> errBucketTotal, dscoTracker |-> dscoTracker \cup {height}, idMap |-> inner.idMap]
        ELSE [err |-> Nil, dscoTracker |-> dscoTracker \cup {height}, idMap |-> inner.idMap]

\* As scanBuckets, but every bucket starts with an empty idMap.
RECURSIVE scanBucketsOwnIDs(_, _, _)
scanBucketsOwnIDs(bs, dscoTracker, idMap) ==
    IF Len(bs) = 0
    THEN [err |-> Nil, dscoTracker |-> dscoTracker, idMap |-> idMap]
    ELSE IF ~HasPrefix(Head(bs).name, prefixDSCO)
    THEN scanBucketsOwnIDs(Tail(bs), dscoTracker, idMap)
    ELSE LET one == scanBucket(Head(bs), dscoTracker, {})
         IN  IF one.err # Nil
             THEN one
             ELSE scanBucketsOwnIDs(Tail(bs), one.dscoTracker, one.idMap)

\* tx.ForEach of checkDSCOs: stops at the first error.
RECURSIVE scanBuckets(_, _, _)
scanBuckets(bs, dscoTracker, idMap) ==
    IF Len(bs) = 0
    THEN [err |-> Nil, dscoTracker |-> dscoTracker, idMap |-> idMap]
    ELSE IF ~HasPrefix(Head(bs).name, prefixDSCO)
    THEN scanBuckets(Tail(bs), dscoTracker, idMap)
    ELSE LET one == scanBucket(Head(bs), dscoTracker, idMap)
         IN  IF one.err # Nil
             THEN one
             ELSE scanBuckets(Tail(bs), one.dscoTracker, one.idMap)

\* As expectedHeights, but the loop stops one height early.
expectedHeightsShort(currentHeight) ==
    {i \in (currentHeight + 1)..(currentHeight + MaturityDelay - 1) : ~(i < MaturityDelay)}

\* As expectedHeights, but no height is required while the chain itself is
\* shorter than the maturity delay.
expectedHeightsYoungChain(currentHeight) ==
    {i \in (currentHeight + 1)..(currentHeight + MaturityDelay) :
        ~(currentHeight < MaturityDelay)}

\* The heights the final loop of checkDSCOs requires a bucket for.
expectedHeights(currentHeight) ==
    {i \in (currentHeight + 1)..(currentHeight + MaturityDelay) : ~(i < MaturityDelay)}

\* As checkDSCOs, but the number of buckets is not compared.
checkDSCOsNoCount(t) ==
    LET scan == scanBuckets(TxForEach(t), {}, {})
        expected == expectedHeights(blockHeight(t))
    IN  IF scan.err # Nil
        THEN scan.err
        ELSE IF \E i \in expected : i \notin scan.dscoTracker
        THEN errMissingBucket
        ELSE Nil

checkDSCOs(t) ==
    LET scan == scanBuckets(TxForEach(t), {}, {})
        expected == expectedHeights(blockHeight(t))
    IN  IF scan.err # Nil
        THEN scan.err
        ELSE IF \E i \in expected : i \notin scan.dscoTracker
        THEN errMissingBucket
        ELSE IF Cardinality(scan.dscoTracker) # Cardinality(expected)
        THEN errTooManyBuckets
        ELSE Nil

----------------------------------------------------------------------------
\* Processed blocks and the fork engine (forkBlockchain).  A processed block
\* records its id, its parent, its height, the checksum taken when it became
\* the head, and the diffs the engine needs to undo and redo it: the miner
\* payout it delays and the delayed outputs that matured with it.

BlockID(height) == 100 + height
PayoutID(height) == 10 + height
NoParent == 0

\* currentProcessedBlock(tx).
currentBlockID(t) == Get(Bucket(t, BlockPath), blockHeight(t))
currentProcessedBlock(t) == Get(Bucket(t, BlockMap), currentBlockID(t))

\* getBlockMap(tx, id).
getBlockMap(t, id) ==
    IF id \in Keys(Bucket(t, BlockMap))
    THEN [pb |-> Get(Bucket(t, BlockMap), id), err |-> Nil]
    ELSE [pb |-> Nil, err |-> errNilItem]

RECURSIVE PutAll(_, _)
PutAll(b, entries) ==
    IF Len(entries) = 0 THEN b
    ELSE PutAll(Put(b, Head(entries)[1], Head(entries)[2]), Tail(entries))

RECURSIVE DeleteAll(_, _)
DeleteAll(b, entries) ==
    IF Len(entries) = 0 THEN b
    ELSE DeleteAll(Delete(b, Head(entries)[1]), Tail(entries))

\* Redo of block pb on top of its parent.
applyBlock(t, pb) ==
    LET t1 == IF pb.HasMatured
              THEN Update(DeleteBucket(t, dscoName(pb.Height)),
                          PutAll(Bucket(t, SiacoinOutputs), pb.Matured))
              ELSE t
        t2 == CreateBucket(t1, dscoName(pb.Height + MaturityDelay), <<pb.Payout>>)
        t3 == Update(t2, Put(Bucket(t2, BlockPath), pb.Height, pb.ID))
    IN  Update(t3, Put(Bucket(t3, BlockHeight), 0, pb.Height))

\* Undo of the head block pb.
revertBlock(t, pb) ==
    LET t1 == DeleteBucket(t, dscoName(pb.Height + MaturityDelay))
        t2 == IF pb.HasMatured
              THEN CreateBucket(Update(t1, DeleteAll(Bucket(t1, SiacoinOutputs), pb.Matured)),
                                dscoName(pb.Height), pb.Matured)
              ELSE t1
        t3 == Update(t2, Delete(Bucket(t2, BlockPath), pb.Height))
    IN  Update(t3, Put(Bucket(t3, BlockHeight), 0, pb.Height - 1))

\* A corrupted undo path: the undo is done, but one unspent siacoin output
\* that the parent's state did not hold is left behind.
ExtraOutputID == 90
leaveExtraOutput(t) ==
    Update(t, Put(Bucket(t, SiacoinOutputs), ExtraOutputID, MarshalOutput(1, 0)))

\* cs.forkBlockchain(tx, target): make target the head.
forkBlockchain(t, target) ==
    LET current == currentProcessedBlock(t)
    IN  IF target.ID = current.ID
        THEN [tx |-> t, err |-> Nil]
        ELSE IF target.ID = current.ParentID
        THEN IF fault = "revertErr"
             THEN [tx |-> t, err |-> errFork]
             ELSE IF fault = "extraOutput"
             THEN [tx |-> leaveExtraOutput(revertBlock(t, current)), err |-> Nil]
             ELSE [tx |-> revertBlock(t, current), err |-> Nil]
        ELSE IF target.ParentID = current.ID /\ fault # "applyErr"
        THEN [tx |-> applyBlock(t, target), err |-> Nil]
        ELSE [tx |-> t, err |-> errFork]

----------------------------------------------------------------------------
\* checkRevertApply and checkConsistency.  Each returns, with its error, the
\* transaction as it leaves it and a log of what it invoked: the targets
\* handed to the fork engine and the checksums computed, in order.

\* As checkRevertApply, but the checksum taken after the undo is compared
\* with the checksum recorded on the current block.
checkRevertApplyAgainstCurrent(t) ==
    LET current == currentProcessedBlock(t)
        lookup == getBlockMap(t, current.ParentID)
        parent == lookup.pb
        undo == forkBlockchain(t, parent)
        sum1 == consensusChecksum(undo.tx)
        redo == forkBlockchain(undo.tx, current)
        sum2 == consensusChecksum(redo.tx)
    IN  IF lookup.err # Nil
        THEN [err |-> lookup.err, tx |-> t, forks |-> <<>>, sums |-> <<>>]
        ELSE IF undo.err # Nil
        THEN [err |-> undo.err, tx |-> undo.tx, forks |-> <<parent.ID>>, sums |-> <<>>]
        ELSE IF sum1 # current.ConsensusChecksum
        THEN [err |-> errRevertMismatch, tx |-> undo.tx,
              forks |-> <<parent.ID>>, sums |-> <<sum1>>]
        ELSE IF redo.err # Nil
        THEN [err |-> redo.err, tx |-> redo.tx,
              forks |-> <<parent.ID, current.ID>>, sums |-> <<sum1>>]
        ELSE IF sum2 # current.ConsensusChecksum
        THEN [err |-> errReapplyMismatch, tx |-> redo.tx,
              forks |-> <<parent.ID, current.ID>>, sums |-> <<sum1, sum2>>]
        ELSE [err |-> Nil, tx |-> redo.tx,
              forks |-> <<parent.ID, current.ID>>, sums |-> <<sum1, sum2>>]

\* As checkRevertApply, but the checksum taken after the redo is compared
\* with the checksum recorded on the parent.
checkRevertApplyAgainstParent(t) ==
    LET current == currentProcessedBlock(t)
        lookup == getBlockMap(t, current.ParentID)
        parent == lookup.pb
        undo == forkBlockchain(t, parent)
        sum1 == consensusChecksum(undo.tx)
        redo == forkBlockchain(undo.tx, current)
        sum2 == consensusChecksum(redo.tx)
    IN  IF lookup.err # Nil
        THEN [err |-> lookup.err, tx |-> t, forks |-> <<>>, sums |-> <<>>]
        ELSE IF undo.err # Nil
        THEN [err |-> undo.err, tx |-> undo.tx, forks |-> <<parent.ID>>, sums |-> <<>>]
        ELSE IF sum1 # parent.ConsensusChecksum
        THEN [err |-> errRevertMismatch, tx |-> undo.tx,
              forks |-> <<parent.ID>>, sums |-> <<sum1>>]
        ELSE IF redo.err # Nil
        THEN [err |-> redo.err, tx |-> redo.tx,
              forks |-> <<parent.ID, current.ID>>, sums |-> <<sum1>>]
        ELSE IF sum2 # parent.ConsensusChecksum
        THEN [err |-> errReapplyMismatch, tx |-> redo.tx,
              forks |-> <<parent.ID, current.ID>>, sums |-> <<sum1, sum2>>]
        ELSE [err |-> Nil, tx |-> redo.tx,
              forks |-> <<parent.ID, current.ID>>, sums |-> <<sum1, sum2>>]

\* As checkRevertApply, but a parent that is not found is not an error.
checkRevertApplyIgnoresLookup(t) ==
    LET current == currentProcessedBlock(t)
        lookup == getBlockMap(t, current.ParentID)
        parent == lookup.pb
        undo == forkBlockchain(t, parent)
        sum1 == consensusChecksum(undo.tx)
        redo == forkBlockchain(undo.tx, current)
        sum2 == consensusChecksum(redo.tx)
    IN  IF lookup.err # Nil
        THEN [err |-> Nil, tx |-> t, forks |-> <<>>, sums |-> <<>>]
        ELSE IF undo.err # Nil
        THEN [err |-> undo.err, tx |-> undo.tx, forks |-> <<parent.ID>>, sums |-> <<>>]
        ELSE IF sum1 # parent.ConsensusChecksum
        THEN [err |-> errRevertMismatch, tx |-> undo.tx,
              forks |-> <<parent.ID>>, sums |-> <<sum1>>]
        ELSE IF redo.err # Nil
        THEN [err |-> redo.err, tx |-> redo.tx,
              forks |-> <<parent.ID, current.ID>>, sums |-> <<sum1>>]
        ELSE IF sum2 # current.ConsensusChecksum
        THEN [err |-> errReapplyMismatch, tx |-> redo.tx,
              forks |-> <<parent.ID, current.ID>>, sums |-> <<sum1, sum2>>]
        ELSE [err |-> Nil, tx |-> redo.tx,
              forks |-> <<parent.ID, current.ID>>, sums |-> <<sum1, sum2>>]

checkRevertApply(t) ==
    LET current == currentProcessedBlock(t)
        lookup == getBlockMap(t, current.ParentID)
        parent == lookup.pb
        undo == forkBlockchain(t, parent)
        sum1 == consensusChecksum(undo.tx)
        redo == forkBlockchain(undo.tx, current)
        sum2 == consensusChecksum(redo.tx)
    IN  IF lookup.err # Nil
        THEN [err |-> lookup.err, tx |-> t, forks |-> <<>>, sums |-> <<>>]
        ELSE IF undo.err # Nil
        THEN [err |-> undo.err, tx |-> undo.tx, forks |-> <<parent.ID>>, sums |-> <<>>]
        ELSE IF sum1 # parent.ConsensusChecksum
        THEN [err |-> errRevertMismatch, tx |-> undo.tx,
              forks |-> <<parent.ID>>, sums |-> <<sum1>>]
        ELSE IF redo.err # Nil
        THEN [err |-> redo.err, tx |-> redo.tx,
              forks |-> <<parent.ID, current.ID>>, sums |-> <<sum1>>]
        ELSE IF sum2 # current.ConsensusChecksum
        THEN [err |-> errReapplyMismatch, tx |-> redo.tx,
              forks |-> <<parent.ID, current.ID>>, sums |-> <<sum1, sum2>>]
        ELSE [err |-> Nil, tx |-> redo.tx,
              forks |-> <<parent.ID, current.ID>>, sums |-> <<sum1, sum2>>]

\* As checkConsistency, but the error of checkSiafundCount is not returned:
\* the later checks run and decide the result.
checkConsistencyKeepsGoing(t) ==
    LET e1 == checkSiacoinCount(t)
        e3 == checkDSCOs(t)
        r4 == checkRevertApply(t)
        none == [tx |-> t, forks |-> <<>>, sums |-> <<>>]
    IN  IF e1 # Nil
        THEN [err |-> e1, calls |-> <<"checkSiacoinCount">>] @@ none
        ELSE IF e3 # Nil
        THEN [err |-> e3,
              calls |-> <<"checkSiacoinCount", "checkSiafundCount", "checkDSCOs">>] @@ none
        ELSE [err |-> r4.err,
              calls |-> <<"checkSiacoinCount", "checkSiafundCount", "checkDSCOs",
                          "checkRevertApply">>] @@ r4

\* As checkConsistency, but a failing checkDSCOs leaves the store without
\* the delayed output buckets it scanned.
checkConsistencyDropsScanned(t) ==
    LET e1 == checkSiacoinCount(t)
        e2 == checkSiafundCount(t)
        e3 == checkDSCOs(t)
        r4 == checkRevertApply(t)
        none == [tx |-> t, forks |-> <<>>, sums |-> <<>>]
        scanned == [tx |-> SelectSeq(t, LAMBDA b : ~HasPrefix(b.name, prefixDSCO)),
                    forks |-> <<>>, sums |-> <<>>]
    IN  IF e1 # Nil
        THEN [err |-> e1, calls |-> <<"checkSiacoinCount">>] @@ none
        ELSE IF e2 # Nil
        THEN [err |-> e2, calls |-> <<"checkSiacoinCount", "checkSiafundCount">>] @@ none
        ELSE IF e3 # Nil
        THEN [err |-> e3,
              calls |-> <<"checkSiacoinCount", "checkSiafundCount", "checkDSCOs">>] @@ scanned
        ELSE [err |-> r4.err,
              calls |-> <<"checkSiacoinCount", "checkSiafundCount", "checkDSCOs",
                          "checkRevertApply">>] @@ r4

checkConsistency(t) ==
    LET e1 == checkSiacoinCount(t)
        e2 == checkSiafundCount(t)
        e3 == checkDSCOs(t)
        r4 == checkRevertApply(t)
        none == [tx |-> t, forks |-> <<>>, sums |-> <<>>]
    IN  IF e1 # Nil
        THEN [err |-> e1, calls |-> <<"checkSiacoinCount">>] @@ none
        ELSE IF e2 # Nil
        THEN [err |-> e2, calls |-> <<"checkSiacoinCount", "checkSiafundCount">>] @@ none
        ELSE IF e3 # Nil
        THEN [err |-> e3,
              calls |-> <<"checkSiacoinCount", "checkSiafundCount", "checkDSCOs">>] @@ none
        ELSE [err |-> r4.err,
              calls |-> <<"checkSiacoinCount", "checkSiafundCount", "checkDSCOs",
                          "checkRevertApply">>] @@ r4

----------------------------------------------------------------------------
\* The initial database: the genesis block is the head.  The buckets are
\* created in the order createConsensusDB creates them, which is not their
\* byte order.  The siafund allocation is two outputs, and one file contract
\* with its expiration bucket is present.

ContractID == 50
ContractEnd == 40

GenesisBlock(sum) ==
    [ID |-> BlockID(0), ParentID |-> NoParent, Height |-> 0,
     ConsensusChecksum |-> sum, Payout |-> <<PayoutID(0), MarshalOutput(CalculateCoinbase(0), 0)>>,
     HasMatured |-> FALSE, Matured |-> <<>>]

GenesisStore(block) ==
    << [name |-> BlockHeight, kv |-> << <<0, 0>> >>],
       [name |-> BlockMap, kv |-> << <<BlockID(0), block>> >>],
       [name |-> BlockPath, kv |-> << <<0, BlockID(0)>> >>],
       [name |-> SiacoinOutputs, kv |-> <<>>],
       [name |-> FileContracts, kv |-> << <<ContractID, 1>> >>],
       [name |-> SiafundOutputs,
        kv |-> << <<2, MarshalOutput(1, 0)>>, <<1, MarshalOutput(2, 1)>> >>],
       [name |-> SiafundPool, kv |-> << <<0, 0>> >>],
       [name |-> fcexName(ContractEnd), kv |-> << <<ContractID, 0>> >>],
       [name |-> dscoName(MaturityDelay), kv |-> <<block.Payout>>] >>

Genesis == GenesisStore(GenesisBlock(consensusChecksum(GenesisStore(GenesisBlock(<<>>)))))

NoCall == [err |-> "no call", calls |-> <<>>, forks |-> <<>>, sums |-> <<>>]
NoOp == [op |-> "none", pre |-> <<>>, height |-> 0, key |-> 0]

\* The state after start-up of a build whose maturity delay is md.
InitBuild(md) ==
    /\ MaturityDelay = md
    /\ DEBUG = TRUE
    /\ tx = Genesis
    /\ fault = "none"
    /\ edits = 0
    /\ last = NoOp
    /\ result = NoCall
    /\ RandIdle
    /\ HostIdle

\* The testing build and the dev build.
Init == InitBuild(TestingMaturityDelay)
InitDev == InitBuild(DevMaturityDelay)

----------------------------------------------------------------------------
\* The fork engine accepts the next block of the chain: it computes the
\* block's diffs, applies them and records the checksum on the block.

AcceptBlock ==
    /\ edits = 0
    /\ blockHeight(tx) < MaxHeight
    /\ LET height == blockHeight(tx) + 1
           matures == HasBucket(tx, dscoName(height))
           pb == [ID |-> BlockID(height), ParentID |-> currentBlockID(tx),
                  Height |-> height, ConsensusChecksum |-> <<>>,
                  Payout |-> <<PayoutID(height), MarshalOutput(CalculateCoinbase(height), 0)>>,
                  HasMatured |-> matures,
                  Matured |-> IF matures THEN ForEach(Bucket(tx, dscoName(height))) ELSE <<>>]
           applied == applyBlock(tx, pb)
           recorded == [pb EXCEPT !.ConsensusChecksum = consensusChecksum(applied)]
       IN  tx' = Update(applied, Put(Bucket(applied, BlockMap), recorded.ID, recorded))
    /\ last' = [NoOp EXCEPT !.op = "AcceptBlock", !.pre = tx]
    /\ result' = NoCall
    /\ UNCHANGED <<MaturityDelay, DEBUG, fault, edits, randVars, hostVars>>

\* checkConsistency(tx), called on the open transaction.
CheckConsistency ==
    /\ result = NoCall
    /\ LET r == checkConsistency(tx)
       IN  /\ tx' = r.tx
           /\ result' = [err |-> r.err, calls |-> r.calls, forks |-> r.forks, sums |-> r.sums]
    /\ last' = [NoOp EXCEPT !.op = "checkConsistency", !.pre = tx]
    /\ UNCHANGED <<MaturityDelay, DEBUG, fault, edits, randVars, hostVars>>

----------------------------------------------------------------------------
\* Direct edits of the store, as a test makes them to corrupt a valid chain.

Edited(op, height, key) ==
    /\ edits' = edits + 1
    /\ last' = [op |-> op, pre |-> tx, height |-> height, key |-> key]
    /\ result' = NoCall
    /\ UNCHANGED <<MaturityDelay, DEBUG, randVars, hostVars>>

\* The heights that have a delayed siacoin output bucket, and all the ids in them.
dscoHeights(t) ==
    {UnmarshalHeight(SubSeq(t[i].name, 2, 3)) : i \in {j \in 1..Len(t) : HasPrefix(t[j].name, prefixDSCO)}}
dscoIDs(t) == UNION {Keys(Bucket(t, dscoName(h))) : h \in dscoHeights(t)}

\* Overwrite one siafund output: its Value one up or one down, or its
\* UnlockHash changed.
EditSiafundOutput ==
    /\ edits < MaxEdits
    /\ \E id \in Keys(Bucket(tx, SiafundOutputs)) :
         LET sfo == UnmarshalOutput(Get(Bucket(tx, SiafundOutputs), id))
         IN  \E new \in {MarshalOutput(sfo.Value + 1, sfo.UnlockHash),
                         MarshalOutput(sfo.Value - 1, sfo.UnlockHash),
                         MarshalOutput(sfo.Value, (sfo.UnlockHash + 1) % UnlockHashes)} :
               /\ new >= 0
               /\ tx' = Update(tx, Put(Bucket(tx, SiafundOutputs), id, new))
               /\ Edited("EditSiafundOutput", 0, id)
    /\ UNCHANGED fault

\* Remove one delayed siacoin output bucket.
DeleteDSCOBucket ==
    /\ edits < MaxEdits
    /\ \E h \in dscoHeights(tx) :
         /\ tx' = DeleteBucket(tx, dscoName(h))
         /\ Edited("DeleteDSCOBucket", h, 0)
    /\ UNCHANGED fault

\* Heights tried for a spurious bucket: below the maturity delay, the current
\* height, and the first height above the expected range.
spuriousHeights(t) == {0, blockHeight(t), blockHeight(t) + MaturityDelay + 1}
SpuriousID(h) == 60 + h

\* Add a bucket at a height that has none: empty, or with one new output
\* worth exactly the minimum checkDSCOs computes for that height.
CreateDSCOBucket ==
    /\ edits < MaxEdits
    /\ \E h \in spuriousHeights(tx) \ dscoHeights(tx) :
       \E kv \in {<<>>, << <<SpuriousID(h),
                            MarshalOutput(CalculateCoinbase(SubMaturityDelay(h)), 0)>> >>} :
         /\ tx' = CreateBucket(tx, dscoName(h), kv)
         /\ Edited("CreateDSCOBucket", h, 0)
    /\ UNCHANGED fault

\* Overwrite one delayed output with a Value one up or one down.
EditDSCO ==
    /\ edits < MaxEdits
    /\ \E h \in dscoHeights(tx) :
       \E id \in Keys(Bucket(tx, dscoName(h))), d \in {-1, 1} :
         LET sco == UnmarshalOutput(Get(Bucket(tx, dscoName(h)), id))
         IN  /\ sco.Value + d >= 0
             /\ tx' = Update(tx, Put(Bucket(tx, dscoName(h)), id, MarshalOutput(sco.Value + d, sco.UnlockHash)))
             /\ Edited("EditDSCO", h, id)
    /\ UNCHANGED fault

\* Copy an output of bucket g into another bucket h, under the same id.
DuplicateDSCO ==
    /\ edits < MaxEdits
    /\ \E g \in dscoHeights(tx), h \in dscoHeights(tx) :
       \E id \in Keys(Bucket(tx, dscoName(g))) \ Keys(Bucket(tx, dscoName(h))) :
         /\ tx' = Update(tx, Put(Bucket(tx, dscoName(h)), id, Get(Bucket(tx, dscoName(g)), id)))
         /\ Edited("DuplicateDSCO", h, id)
    /\ UNCHANGED fault

\* Delete an entry and insert it again: same content, other insertion order.
Reinsert ==
    /\ edits < MaxEdits
    /\ \E name \in {SiacoinOutputs, SiafundOutputs} :
       \E i \in 1..(Len(Bucket(tx, name).kv) - 1) :
         LET e == Bucket(tx, name).kv[i]
         IN  /\ tx' = Update(tx, Put(Delete(Bucket(tx, name), e[1]), e[1], e[2]))
             /\ Edited("Reinsert", 0, e[1])
    /\ UNCHANGED fault

\* Overwrite the checksum recorded on the head block or on its parent.
CorruptChecksum ==
    /\ edits < MaxEdits
    /\ \E id \in {currentBlockID(tx), currentProcessedBlock(tx).ParentID} \cap Keys(Bucket(tx, BlockMap)) :
         LET pb == Get(Bucket(tx, BlockMap), id)
         IN  /\ pb.ConsensusChecksum # <<>>
             /\ tx' = Update(tx, Put(Bucket(tx, BlockMap), id, [pb EXCEPT !.ConsensusChecksum = <<>>]))
             /\ Edited("CorruptChecksum", 0, id)
    /\ UNCHANGED fault

\* Make the fork engine fail on its next undo or redo, or corrupt its undo.
InjectFault ==
    /\ edits < MaxEdits
    /\ fault = "none"
    /\ fault' \in {"revertErr", "applyErr", "extraOutput"}
    /\ tx' = tx
    /\ Edited("InjectFault", 0, 0)

Next ==
    \/ AcceptBlock
    \/ CheckConsistency
    \/ EditSiafundOutput
    \/ DeleteDSCOBucket
    \/ CreateDSCOBucket
    \/ EditDSCO
    \/ DuplicateDSCO
    \/ Reinsert
    \/ CorruptChecksum
    \/ InjectFault

Spec == Init /\ [][Next]_vars
SpecDev == InitDev /\ [][Next]_vars

----------------------------------------------------------------------------
\* Properties.  last.pre is the transaction the last operation started from;
\* after a call of checkConsistency, result is what the call did on last.pre.

Called == last.op = "checkConsistency"

checkOrder == <<"checkSiacoinCount", "checkSiafundCount", "checkDSCOs", "checkRevertApply">>

\* The error the i-th check of checkOrder gives on transaction t.
errorOf(i, t) ==
    CASE i = 1 -> checkSiacoinCount(t)
      [] i = 2 -> checkSiafundCount(t)
      [] i = 3 -> checkDSCOs(t)
      [] i = 4 -> checkRevertApply(t).err

\* C1: checkConsistency runs checkSiacoinCount, checkSiafundCount, checkDSCOs
\* and checkRevertApply in that order, stops at the first one that fails and
\* returns its error unchanged; when checkSiafundCount or checkDSCOs fails the
\* fork engine is not invoked, no checksum is taken and the store is untouched.
C1_OrderFailFast ==
    Called =>
      LET n == Len(result.calls)
      IN  /\ n \in 1..4
          /\ result.calls = SubSeq(checkOrder, 1, n)
          /\ \A i \in 1..(n - 1) : errorOf(i, last.pre) = Nil
          /\ result.err = errorOf(n, last.pre)
          /\ n < 4 => result.err # Nil
          /\ (checkSiafundCount(last.pre) # Nil \/ checkDSCOs(last.pre) # Nil)
                => /\ n < 4
                   /\ result.forks = <<>>
                   /\ result.sums = <<>>
                   /\ tx = last.pre

\* A call on a store where both checkSiafundCount and checkDSCOs fail: the
\* siafund error is the one returned.
C1_Witness ==
    /\ Called
    /\ checkDSCOs(last.pre) # Nil
    /\ result.err = errSiafundCount
    /\ result.calls = <<"checkSiacoinCount", "checkSiafundCount">>

\* The sum of the Value fields of the entries of SiafundOutputs, taken over
\* the set of its keys.
RECURSIVE ValueSum(_, _)
ValueSum(b, keys) ==
    IF keys = {}
    THEN 0
    ELSE LET k == CHOOSE x \in keys : TRUE
         IN  UnmarshalOutput(Get(b, k)).Value + ValueSum(b, keys \ {k})

FundSum(t) == ValueSum(Bucket(t, SiafundOutputs), Keys(Bucket(t, SiafundOutputs)))

\* The last operation changed the Value field of one siafund output.
FundValueEdited ==
    /\ last.op = "EditSiafundOutput"
    /\ UnmarshalOutput(Get(Bucket(tx, SiafundOutputs), last.key)).Value
         # UnmarshalOutput(Get(Bucket(last.pre, SiafundOutputs), last.key)).Value

\* C2: checkSiafundCount fails, with the siafund count error, exactly when the
\* sum of the Value fields of SiafundOutputs differs from SiafundCount; and
\* changing the Value of one siafund output of a store that passes
\* checkConsistency makes checkConsistency fail with that error, the only
\* checks run being checkSiacoinCount and checkSiafundCount.
C2_SiafundCount ==
    /\ checkSiafundCount(tx) = IF FundSum(tx) # SiafundCount THEN errSiafundCount ELSE Nil
    /\ (FundValueEdited /\ checkConsistency(last.pre).err = Nil)
          => /\ checkConsistency(tx).err = errSiafundCount
             /\ checkConsistency(tx).calls = <<"checkSiacoinCount", "checkSiafundCount">>

\* One Value of a passing store was edited, and the sum is now too large.
C2_Witness ==
    /\ FundValueEdited
    /\ checkConsistency(last.pre).err = Nil
    /\ FundSum(tx) > SiafundCount
    /\ checkConsistency(tx).err = errSiafundCount

\* The head block and its parent as recorded in the block map of t.
HeadOf(t) == currentProcessedBlock(t)
ParentOf(t) == getBlockMap(t, HeadOf(t).ParentID).pb

\* The last call got as far as checkRevertApply and found the parent.
RevertApplyRan ==
    /\ Called
    /\ Len(result.calls) = 4
    /\ getBlockMap(last.pre, HeadOf(last.pre).ParentID).err = Nil

\* C3: checkRevertApply first hands the parent of the head to the fork
\* engine; the checksum it then takes is that of the store the engine left,
\* and the call fails with the mismatch-after-reverting error exactly when
\* that checksum differs from the one recorded on the parent.  When it fails
\* so, the engine was not invoked again, no second checksum was taken and the
\* parent is still the head.
C3_RevertStep ==
    RevertApplyRan =>
      LET current == HeadOf(last.pre)
          parent == ParentOf(last.pre)
      IN  /\ Len(result.forks) >= 1
          /\ result.forks[1] = parent.ID
          /\ parent.ID = current.ParentID
          /\ Len(result.sums) >= 1 =>
               /\ result.sums[1] = consensusChecksum(forkBlockchain(last.pre, parent).tx)
               /\ (result.err = errRevertMismatch)
                     <=> (result.sums[1] # parent.ConsensusChecksum)
          /\ result.err = errRevertMismatch =>
               /\ result.forks = <<parent.ID>>
               /\ Len(result.sums) = 1
               /\ currentBlockID(tx) = parent.ID

\* A call that failed after the undo although the recorded checksums were
\* not touched: a delayed output of a bucket the undo keeps was edited.
C3_Witness ==
    /\ RevertApplyRan
    /\ result.err = errRevertMismatch
    /\ ParentOf(last.pre).ConsensusChecksum # <<>>
    /\ currentBlockID(tx) = HeadOf(last.pre).ParentID

\* The last call got past the comparison after the undo.
RevertPassed ==
    /\ RevertApplyRan
    /\ Len(result.sums) >= 1
    /\ result.sums[1] = ParentOf(last.pre).ConsensusChecksum

\* C4: when the comparison after the undo passes, the fork engine is handed
\* the current block next, and the call fails with the mismatch-after-
\* re-applying error exactly when the checksum taken after the redo differs
\* from the one recorded on the current block.  A call that succeeds invoked
\* the engine exactly twice, for the parent and then for the current block,
\* took the two recorded checksums in that order, and leaves the current
\* block the head.
C4_ReapplyStep ==
    /\ RevertPassed =>
         LET current == HeadOf(last.pre)
             parent == ParentOf(last.pre)
         IN  /\ result.forks = <<parent.ID, current.ID>>
             /\ Len(result.sums) = 2 =>
                  /\ result.sums[2] = consensusChecksum(tx)
                  /\ (result.err = errReapplyMismatch)
                        <=> (result.sums[2] # current.ConsensusChecksum)
    /\ (Called /\ result.err = Nil) =>
         /\ RevertPassed
         /\ result.forks = <<ParentOf(last.pre).ID, HeadOf(last.pre).ID>>
         /\ result.sums = <<ParentOf(last.pre).ConsensusChecksum,
                            HeadOf(last.pre).ConsensusChecksum>>
         /\ currentBlockID(tx) = HeadOf(last.pre).ID
         /\ blockHeight(tx) = HeadOf(last.pre).Height

\* A successful call on a chain of height at least the maturity delay, where
\* the undo restores a matured bucket and the redo removes it again.
C4_Witness ==
    /\ Called
    /\ result.err = Nil
    /\ Len(result.forks) = 2
    /\ HeadOf(last.pre).HasMatured
    /\ result.sums[1] # result.sums[2]

----------------------------------------------------------------------------
\* Properties of checkDSCOs.

\* The heights that must have a bucket when the chain is at height H.
claimedHeights(H) ==
    {h \in 0..(H + MaturityDelay) : H + 1 <= h /\ h <= H + MaturityDelay /\ h >= MaturityDelay}

\* Sum of the Value fields of the delayed outputs of the bucket at height h.
bucketTotal(t, h) == ValueSum(Bucket(t, dscoName(h)), Keys(Bucket(t, dscoName(h))))

\* The minimum checkDSCOs computes for the bucket at height h: the coinbase
\* of h - MaturityDelay taken on the unsigned block height.
minimumOf(h) == CalculateCoinbase(SubMaturityDelay(h))

Underfunded(t, h) == bucketTotal(t, h) < minimumOf(h)

\* Bucket g is presented to the scan before bucket h.
ScannedBefore(g, h) == NameLess(dscoName(g), dscoName(h))

\* Bucket h holds an id that a bucket scanned before it holds too.
RepeatsIn(t, h) ==
    \E g \in dscoHeights(t) :
        /\ ScannedBefore(g, h)
        /\ Keys(Bucket(t, dscoName(g))) \cap Keys(Bucket(t, dscoName(h))) # {}

HasDuplicate(t) == \E h \in dscoHeights(t) : RepeatsIn(t, h)
HasUnderfunded(t) == \E h \in dscoHeights(t) : Underfunded(t, h)
ScanClean(t) == ~HasDuplicate(t) /\ ~HasUnderfunded(t)
MissesBucket(t) == \E h \in claimedHeights(blockHeight(t)) : h \notin dscoHeights(t)

\* C5 as stated: checkDSCOs passes only if the bucket heights are exactly the
\* claimed ones, and whenever a claimed height has no bucket the error is
\* the missing-bucket error.
C5_Original ==
    /\ checkDSCOs(tx) = Nil => dscoHeights(tx) = claimedHeights(blockHeight(tx))
    /\ MissesBucket(tx) => checkDSCOs(tx) = errMissingBucket

\* C5, amended: checkDSCOs passes only if the bucket heights are exactly the
\* claimed ones; when a claimed height has no bucket it fails, with the
\* missing-bucket error if the scan of the buckets present raised no error,
\* as it does after one bucket is removed from a store that passed.
C5_MissingBucket ==
    /\ checkDSCOs(tx) = Nil => dscoHeights(tx) = claimedHeights(blockHeight(tx))
    /\ MissesBucket(tx) => checkDSCOs(tx) # Nil
    /\ (MissesBucket(tx) /\ ScanClean(tx)) => checkDSCOs(tx) = errMissingBucket
    /\ (last.op = "DeleteDSCOBucket" /\ checkDSCOs(last.pre) = Nil)
          => checkDSCOs(tx) = errMissingBucket

\* One bucket removed from a passing store at a height of at least the
\* maturity delay.
C5_Witness ==
    /\ last.op = "DeleteDSCOBucket"
    /\ checkDSCOs(last.pre) = Nil
    /\ blockHeight(tx) >= MaturityDelay
    /\ checkDSCOs(tx) = errMissingBucket

\* The last operation added a bucket outside the expected range to a store at
\* height at least the maturity delay that passed checkDSCOs.
SpuriousAdded ==
    /\ last.op = "CreateDSCOBucket"
    /\ blockHeight(last.pre) >= MaturityDelay
    /\ checkDSCOs(last.pre) = Nil
    /\ last.height \notin (blockHeight(last.pre) + 1)..(blockHeight(last.pre) + MaturityDelay)

\* C6 as stated: whatever the added bucket holds, the error is the
\* too-many-buckets error.
C6_Original == SpuriousAdded => checkDSCOs(tx) = errTooManyBuckets

\* C6, amended: the error is the too-many-buckets error when the added
\* bucket holds ids of no other bucket worth at least the minimum computed
\* for its height; when it holds less, in particular nothing, the error is
\* the bucket-total error.
C6_SpuriousBucket ==
    SpuriousAdded =>
      checkDSCOs(tx) = IF Underfunded(tx, last.height)
                       THEN errBucketTotal
                       ELSE errTooManyBuckets

\* A funded bucket added below the maturity delay.
C6_Witness ==
    /\ SpuriousAdded
    /\ last.height < MaturityDelay
    /\ bucketTotal(tx, last.height) > 0
    /\ checkDSCOs(tx) = errTooManyBuckets

\* The last operation copied an id into a second bucket of a store that passed.
DuplicateAdded == last.op = "DuplicateDSCO" /\ checkDSCOs(last.pre) = Nil

\* C7 as stated: an id held by two buckets always gives the repeat error.
C7_Original ==
    /\ HasDuplicate(tx) => checkDSCOs(tx) = errRepeatOutput
    /\ DuplicateAdded => checkDSCOs(tx) = errRepeatOutput

\* C7, amended: when an id is held by two buckets checkDSCOs fails, with the
\* repeat error unless a bucket scanned before the first bucket that repeats
\* an id is under its minimum, in which case the bucket-total error is
\* returned first; duplicating an id in a store that passed gives the repeat
\* error.
C7_DuplicateID ==
    /\ HasDuplicate(tx) =>
         LET h == CHOOSE x \in dscoHeights(tx) :
                    /\ RepeatsIn(tx, x)
                    /\ \A y \in dscoHeights(tx) : ScannedBefore(y, x) => ~RepeatsIn(tx, y)
         IN  checkDSCOs(tx) =
               IF \E g \in dscoHeights(tx) : ScannedBefore(g, h) /\ Underfunded(tx, g)
               THEN errBucketTotal
               ELSE errRepeatOutput
    /\ DuplicateAdded => checkDSCOs(tx) = errRepeatOutput

\* An id of a later bucket copied into an earlier one.
C7_Witness ==
    /\ DuplicateAdded
    /\ HasDuplicate(tx)
    /\ \E g \in dscoHeights(tx) : ScannedBefore(last.height, g) /\ last.key \in Keys(Bucket(tx, dscoName(g)))
    /\ checkDSCOs(tx) = errRepeatOutput

\* C8 as stated: a bucket under the coinbase of its height minus the maturity
\* delay always gives the bucket-total error, no bucket at or above it does,
\* and the subtraction never wraps for a bucket that is examined.
C8_Original ==
    /\ HasUnderfunded(tx) => checkDSCOs(tx) = errBucketTotal
    /\ ~HasUnderfunded(tx) => checkDSCOs(tx) # errBucketTotal
    /\ \A h \in dscoHeights(tx) : SubMaturityDelay(h) = h - MaturityDelay

\* What checkDSCOs does about bucket totals: the bucket-total error is
\* returned only if some bucket is under its minimum, and it is returned when
\* the first such bucket in scan order is reached without a repeated id,
\* itself included; a total equal to the minimum passes.  For a bucket below
\* the maturity delay the subtraction wraps, and the minimum used is the
\* coinbase of the wrapped height.
C8_BucketTotal ==
    /\ checkDSCOs(tx) = errBucketTotal => HasUnderfunded(tx)
    /\ HasUnderfunded(tx) =>
         LET u == CHOOSE x \in dscoHeights(tx) :
                    /\ Underfunded(tx, x)
                    /\ \A y \in dscoHeights(tx) : ScannedBefore(y, x) => ~Underfunded(tx, y)
         IN  (\A g \in dscoHeights(tx) : (g = u \/ ScannedBefore(g, u)) => ~RepeatsIn(tx, g))
                => checkDSCOs(tx) = errBucketTotal
    /\ \A h \in dscoHeights(tx) :
         h < MaturityDelay =>
            /\ SubMaturityDelay(h) = h - MaturityDelay + BlockHeightModulus
            /\ (bucketTotal(tx, h) >= MinimumCoinbase /\ ~HasDuplicate(tx)
                  /\ \A g \in dscoHeights(tx) : g # h => ~Underfunded(tx, g))
                 => checkDSCOs(tx) \notin {Nil, errBucketTotal}

\* checkConsistency examined a bucket below the maturity delay: the height
\* its minimum was computed for is the wrapped one.
C8_Witness ==
    /\ Called
    /\ "checkDSCOs" \in {result.calls[i] : i \in 1..Len(result.calls)}
    /\ \E h \in dscoHeights(last.pre) :
         /\ h < MaturityDelay
         /\ SubMaturityDelay(h) > h
         /\ ~(\E g \in dscoHeights(last.pre) : ScannedBefore(g, h))

\* The chain of the dev build at height 1.
DevHeightOne == MaturityDelay = DevMaturityDelay /\ blockHeight(tx) = 1

\* C9 as stated: at height 1 with a maturity delay of 10, a store with no
\* delayed output bucket passes checkDSCOs.
C9_Original == (DevHeightOne /\ dscoHeights(tx) = {}) => checkDSCOs(tx) = Nil

\* C9, amended: at height 1 with a maturity delay of 10 checkDSCOs passes
\* only with buckets at exactly the heights 10 and 11, which the untouched
\* chain has; with no bucket it fails with the missing-bucket error, and so
\* does checkConsistency when the siafund count holds.
C9_HeightOne ==
    DevHeightOne =>
      /\ checkDSCOs(tx) = Nil => dscoHeights(tx) = {10, 11}
      /\ edits = 0 => checkDSCOs(tx) = Nil
      /\ dscoHeights(tx) = {} =>
           /\ checkDSCOs(tx) = errMissingBucket
           /\ checkSiafundCount(tx) = Nil => checkConsistency(tx).err = errMissingBucket

\* checkConsistency was called at height 1 on a store without buckets.
C9_Witness ==
    /\ DevHeightOne
    /\ Called
    /\ dscoHeights(last.pre) = {}
    /\ result.err = errMissingBucket

----------------------------------------------------------------------------
\* Properties of consensusChecksum.

fixedNames == {BlockPath, SiacoinOutputs, FileContracts, SiafundOutputs, SiafundPool}

\* The buckets the checksum covers.
IsCovered(b) == b.name \in fixedNames \/ IsPrefixed(b)

\* The content the checksum covers: for each covered bucket, its entries.
Content(t) ==
    [n \in {t[i].name : i \in {j \in 1..Len(t) : IsCovered(t[j])}} |->
        {Bucket(t, n).kv[i] : i \in 1..Len(Bucket(t, n).kv)}]

Reverse(q) == [i \in 1..Len(q) |-> q[Len(q) + 1 - i]]

\* The same covered content created and inserted in the opposite order, the
\* buckets that are not covered emptied.
Scrambled(t) ==
    Reverse([i \in 1..Len(t) |->
               [name |-> t[i].name,
                kv |-> IF IsCovered(t[i]) THEN Reverse(t[i].kv) ELSE <<>>]])

\* C10: stores with the same content in the covered buckets have the same
\* checksum, whatever the order their buckets and entries were inserted in
\* and whatever the buckets that are not covered hold.
C10_Deterministic ==
    /\ Content(Scrambled(tx)) = Content(tx)
    /\ consensusChecksum(Scrambled(tx)) = consensusChecksum(tx)
    /\ (last.op # "none" /\ Content(tx) = Content(last.pre))
          => consensusChecksum(tx) = consensusChecksum(last.pre)

\* An entry was deleted and inserted again: same content, another order.
C10_Witness ==
    /\ last.op = "Reinsert"
    /\ tx # last.pre
    /\ Content(tx) = Content(last.pre)
    /\ Scrambled(tx) # tx

----------------------------------------------------------------------------
\* Single changes of the covered content of a store that no edit has touched,
\* as a test makes them to compare checksums.  last.height is the position
\* in last.pre of the bucket changed.

coveredBuckets(t) == {i \in 1..Len(t) : IsCovered(t[i])}

\* The state after start-up of a build with or without build.DEBUG.
InitStore ==
    /\ MaturityDelay = TestingMaturityDelay
    /\ DEBUG \in BOOLEAN
    /\ tx = Genesis
    /\ fault = "none"
    /\ edits = 0
    /\ last = NoOp
    /\ result = NoCall
    /\ RandIdle
    /\ HostIdle

\* Overwrite the value of one entry with another value.
EditValue ==
    /\ edits = 0
    /\ \E i \in coveredBuckets(tx) :
       \E j \in 1..Len(tx[i].kv) :
         LET e == tx[i].kv[j]
         IN  /\ tx' = Update(tx, Put(tx[i], e[1], e[2] + 1))
             /\ Edited("EditValue", i, e[1])
    /\ UNCHANGED fault

\* Replace the key of one entry by a key its bucket does not hold.
EditKey ==
    /\ edits = 0
    /\ \E i \in coveredBuckets(tx) :
       \E j \in 1..Len(tx[i].kv) :
         LET e == tx[i].kv[j]
         IN  /\ e[1] + 1 \notin Keys(tx[i])
             /\ tx' = Update(tx, Put(Delete(tx[i], e[1]), e[1] + 1, e[2]))
             /\ Edited("EditKey", i, e[1])
    /\ UNCHANGED fault

\* Delete one entry.
DeleteEntry ==
    /\ edits = 0
    /\ \E i \in coveredBuckets(tx) :
       \E j \in 1..Len(tx[i].kv) :
         LET e == tx[i].kv[j]
         IN  /\ tx' = Update(tx, Delete(tx[i], e[1]))
             /\ Edited("DeleteEntry", i, e[1])
    /\ UNCHANGED fault

\* Move one entry, key and value unchanged, to another covered bucket that
\* does not hold its key.
MoveEntry ==
    /\ edits = 0
    /\ \E i \in coveredBuckets(tx) :
       \E j \in 1..Len(tx[i].kv) :
       \E to \in coveredBuckets(tx) \ {i} :
         LET e == tx[i].kv[j]
         IN  /\ e[1] \notin Keys(tx[to])
             /\ tx' = Update(Update(tx, Delete(tx[i], e[1])), Put(tx[to], e[1], e[2]))
             /\ Edited("MoveEntry", i, e[1])
    /\ UNCHANGED fault

\* consensusChecksum(tx) called while the read of one covered bucket fails
\* after some of its entries.  last.height is the position of the bucket,
\* last.key the number of entries read.
ChecksumReadFailure ==
    /\ edits = 0
    /\ \E i \in coveredBuckets(tx) :
       \E pushed \in 0..Len(tx[i].kv) :
         LET r == consensusChecksumFailing(tx, tx[i].name, pushed, DEBUG)
         IN  /\ result' = [err |-> r.outcome, calls |-> <<"consensusChecksum">>,
                           forks |-> <<>>, sums |-> r.sums]
             /\ last' = [op |-> "ChecksumReadFailure", pre |-> tx, height |-> i, key |-> pushed]
    /\ UNCHANGED <<MaturityDelay, DEBUG, tx, fault, edits, randVars, hostVars>>

StoreNext ==
    \/ AcceptBlock
    \/ EditValue
    \/ EditKey
    \/ DeleteEntry
    \/ MoveEntry
    \/ ChecksumReadFailure

SpecStore == InitStore /\ [][StoreNext]_vars

\* C11: overwriting the stored value of one entry of a covered bucket,
\* everything else unchanged, changes the leaves consensusChecksum pushes
\* and so the checksum.
C11_ValueSensitive ==
    last.op = "EditValue" => consensusChecksum(tx) # consensusChecksum(last.pre)

\* The value of an entry of a prefixed bucket was overwritten.
C11_Witness ==
    /\ last.op = "EditValue"
    /\ IsPrefixed(last.pre[last.height])
    /\ Content(tx) # Content(last.pre)
    /\ consensusChecksum(tx) # consensusChecksum(last.pre)

SingleChanges == {"EditValue", "EditKey", "DeleteEntry", "MoveEntry"}

\* C18: two stores whose covered content differs, in the key or the value of
\* an entry, in the presence of an entry or in the bucket an entry belongs
\* to, never give the same sequence of leaves.
C18_Original ==
    (last.op \in SingleChanges /\ Content(tx) # Content(last.pre))
        => consensusChecksum(tx) # consensusChecksum(last.pre)

\* What consensusChecksum does distinguish: a change of a key, of a value or
\* of the presence of an entry.
C18_KeyValuePresence ==
    last.op \in {"EditValue", "EditKey", "DeleteEntry"}
        => consensusChecksum(tx) # consensusChecksum(last.pre)

\* An entry was moved to another covered bucket: the content differs and
\* the leaves pushed are the same.
C18_Witness ==
    /\ last.op = "MoveEntry"
    /\ Content(tx) # Content(last.pre)
    /\ consensusChecksum(tx) = consensusChecksum(last.pre)

errStoreCorruption == "store corruption"

\* C20: a read failure during consensusChecksum is never ignored: a debug
\* build panics, a production build reports a store-corruption error, and
\* in neither is a digest returned.
C20_Original ==
    last.op = "ChecksumReadFailure" =>
      /\ result.sums = <<>>
      /\ result.err = IF DEBUG THEN Panic ELSE errStoreCorruption

\* What consensusChecksum does on a read failure: a debug build panics; a
\* production build returns, with no error, the root of the leaves that
\* were pushed.
C20_ReadFailureActual ==
    last.op = "ChecksumReadFailure" =>
      IF DEBUG
      THEN result.err = Panic /\ result.sums = <<>>
      ELSE result.err = Nil /\ Len(result.sums) = 1

\* A production build returned a digest that misses entries of the store,
\* and no error.
C20_Witness ==
    /\ last.op = "ChecksumReadFailure"
    /\ ~DEBUG
    /\ last.key < Len(tx[last.height].kv)
    /\ result.err = Nil
    /\ result.sums # <<>>
    /\ result.sums[1] # consensusChecksum(tx)

----------------------------------------------------------------------------
\* Further properties of checkRevertApply.

\* The store a correct undo of the head of t gives.
Undone(t) == revertBlock(t, HeadOf(t))

\* The last call reached the undo, and the engine left the store a correct
\* undo gives, whose checksum is the one recorded on the parent, plus one
\* unspent siacoin output.
ExtraOutputLeft ==
    /\ RevertApplyRan
    /\ fault = "extraOutput"
    /\ consensusChecksum(Undone(last.pre)) = ParentOf(last.pre).ConsensusChecksum
    /\ forkBlockchain(last.pre, ParentOf(last.pre)).tx = leaveExtraOutput(Undone(last.pre))

\* C12: when the undo of the head block leaves the parent's state plus one
\* extra unspent output, checkRevertApply fails with the
\* mismatch-after-reverting error.
C12_ExtraOutput ==
    /\ (RevertApplyRan /\ fault = "extraOutput"
          /\ consensusChecksum(Undone(last.pre)) = ParentOf(last.pre).ConsensusChecksum)
         => ExtraOutputLeft
    /\ ExtraOutputLeft =>
         /\ result.err = errRevertMismatch
         /\ result.forks = <<ParentOf(last.pre).ID>>
         /\ tx = leaveExtraOutput(Undone(last.pre))

\* The undo of a block with matured outputs left an extra output, on a chain
\* no edit had touched.
C12_Witness ==
    /\ ExtraOutputLeft
    /\ HeadOf(last.pre).HasMatured
    /\ edits = 1
    /\ Content(tx)[SiacoinOutputs]
          = Content(Undone(last.pre))[SiacoinOutputs] \cup {<<ExtraOutputID, MarshalOutput(1, 0)>>}
    /\ result.err = errRevertMismatch

\* The store t without the record of the parent of its head in the block map.
ParentRecordRemoved(t) == Update(t, Delete(Bucket(t, BlockMap), HeadOf(t).ParentID))

ParentAbsent(t) == getBlockMap(t, HeadOf(t).ParentID).err # Nil

\* C13: when the block map holds no record of the parent of the head, as at
\* a genesis head, checkRevertApply returns the error of the lookup, the
\* fork engine is not invoked, no checksum is taken and the store is left as
\* it was.
C13_ParentAbsent ==
    /\ ParentAbsent(ParentRecordRemoved(tx))
    /\ \A t \in {tx, ParentRecordRemoved(tx)} :
         ParentAbsent(t) =>
            checkRevertApply(t) = [err |-> errNilItem, tx |-> t, forks |-> <<>>, sums |-> <<>>]
    /\ (Called /\ Len(result.calls) = 4 /\ ParentAbsent(last.pre)) =>
         /\ result.err = errNilItem
         /\ result.forks = <<>>
         /\ result.sums = <<>>
         /\ tx = last.pre

\* checkConsistency reached checkRevertApply on a store whose head is the
\* genesis block.
C13_Witness ==
    /\ Called
    /\ Len(result.calls) = 4
    /\ blockHeight(last.pre) = 0
    /\ ParentAbsent(last.pre)
    /\ result.err = errNilItem

----------------------------------------------------------------------------
\* The coin supply.

\* The coins the blocks up to a height have created.
RECURSIVE ExpectedCoins(_)
ExpectedCoins(height) ==
    IF height = 0
    THEN CalculateCoinbase(0)
    ELSE CalculateCoinbase(height) + ExpectedCoins(height - 1)

RECURSIVE AddBuckets(_, _)
AddBuckets(total, bs) ==
    IF Len(bs) = 0
    THEN total
    ELSE AddBuckets(AddValues(total, ForEach(Head(bs))), Tail(bs))

\* The coins countable in the store: the siacoin outputs and the delayed
\* siacoin outputs.
CoinTotal(t) ==
    AddBuckets(AddValues(0, ForEach(Bucket(t, SiacoinOutputs))),
               SelectSeq(t, LAMBDA b : HasPrefix(b.name, prefixDSCO)))

WrongCoinTotal(t) == CoinTotal(t) # ExpectedCoins(blockHeight(t))

----------------------------------------------------------------------------
\* The effect of checkConsistency on the store.

\* The store after the first n calls checkRevertApply makes of the fork
\* engine on store t: the undo to the parent, then the redo to the head.
AfterForks(t, n) ==
    CASE n = 0 -> t
      [] n = 1 -> forkBlockchain(t, ParentOf(t)).tx
      [] n = 2 -> forkBlockchain(forkBlockchain(t, ParentOf(t)).tx, HeadOf(t)).tx

\* C19: the store after checkConsistency is the store before it with the
\* fork-engine calls of checkRevertApply applied and nothing else: the
\* checksum, the supply checks and the maturity check change nothing, so a
\* call that fails before checkRevertApply, or that makes no fork call,
\* leaves the store as it was.
C19_Frame ==
    Called =>
      /\ Len(result.forks) \in 0..2
      /\ tx = AfterForks(last.pre, Len(result.forks))
      /\ Len(result.sums) <= Len(result.forks)
      /\ Len(result.calls) < 4 => (result.forks = <<>> /\ tx = last.pre)
      /\ result.err \in {errSiafundCount, errRepeatMap, errRepeatOutput, errBucketTotal,
                         errMissingBucket, errTooManyBuckets}
            => tx = last.pre

\* A call on an edited store that fails in checkDSCOs: the store, the
\* delayed output buckets included, is as before the call.
C19_Witness ==
    /\ Called
    /\ edits > 0
    /\ result.calls = <<"checkSiacoinCount", "checkSiafundCount", "checkDSCOs">>
    /\ checkSiafundCount(last.pre) = Nil
    /\ result.err = checkDSCOs(last.pre)
    /\ \E i \in 1..Len(tx) : HasPrefix(tx[i].name, prefixDSCO)
    /\ tx = last.pre

----------------------------------------------------------------------------
(***************************************************************************)
(* The entropy pool of package crypto (rand.go).  Filler goroutines send   *)
(* blocks of entropy down the buffered channel entropyChan; Read, RandIntn *)
(* and Perm receive from it.  A worker is a goroutine that, like those of  *)
(* TestRandConcurrent, calls one function with one argument again and      *)
(* again until closeChan is closed.  A call is split where it can block:   *)
(* at each receive from the channel.                                       *)
(***************************************************************************)

\* Bounds of the arguments: lengths of the buffers handed to Read, and
\* arguments of RandIntn and of Perm.
MaxLen == 5
MaxIntn == 3
MaxPerm == 3
\* Number of filler goroutines (runtime.NumCPU()).
NumFillers == 2

\* Scaled constants: the capacity of entropyChan, the number of bytes of a
\* Hash, the number of bytes and of values of a byte of a uint64.
ChanCap == 2
HashSize == 3
WordBytes == 3
EntropyBase == 2
MaxUint64 == EntropyBase * EntropyBase * EntropyBase - 1

Fillers == 1..NumFillers
\* The values a Hash of entropy can take.
Blocks == [1..HashSize -> 0..(EntropyBase - 1)]

Min(x, y) == IF x < y THEN x ELSE y

\* copy(dst, src): the destination afterwards, and the number of elements
\* copied.
Copy(dst, src) == [k \in 1..Len(dst) |-> IF k <= Len(src) THEN src[k] ELSE dst[k]]
CopyCount(dst, src) == Min(Len(dst), Len(src))

\* make([]byte, n) and make([]int, n).
Make(n) == [k \in 1..n |-> 0]

\* *(*uint64)(unsafe.Pointer(&b[0])): the first bytes of b, little-endian.
RECURSIVE Uint64From(_, _)
Uint64From(b, k) ==
    IF k > WordBytes THEN 0 ELSE b[k] + EntropyBase * Uint64From(b, k + 1)
Uint64(b) == Uint64From(b, 1)

\* The locals of a worker at the select that starts its loop.
AtSelect(job, arg) ==
    [job |-> job, arg |-> arg, pc |-> "select",
     b |-> <<>>, written |-> {}, n |-> 0, entropy |-> <<>>,
     intn |-> 0, max |-> 0, r |-> 0, m |-> <<>>, i |-> 0, ret |-> 0]

\* One iteration of the loop of Read on the block received: n += copy(b, entropy[:]).
\* written is the set of positions of b the copies have written.
readIteration(st, entropy) ==
    [st EXCEPT !.entropy = entropy,
               !.b = Copy(st.b, entropy),
               !.written = st.written \cup 1..CopyCount(st.b, entropy),
               !.n = st.n + CopyCount(st.b, entropy)]

\* As randIntnMax, but every value below the largest one is accepted.
randIntnMaxAll(n) == MaxUint64

\* max of RandIntn(n).
randIntnMax(n) == MaxUint64 - (MaxUint64 % n)

\* Entry of RandIntn(n): the panic, or max and the buffer of RandBytes(8).
enterRandIntn(st, n) ==
    IF n <= 0
    THEN [st EXCEPT !.pc = "panicked", !.intn = n]
    ELSE [st EXCEPT !.pc = "RandIntn", !.intn = n, !.max = randIntnMax(n),
                    !.b = Make(WordBytes), !.written = {}, !.n = 0]

\* As permAssign, without m[i] = m[j].
permAssignNoMove(m, i, j) == [m EXCEPT ![j + 1] = i]

\* The body of the loop of Perm: m[i] = m[j]; m[j] = i, on indices from 0.
permAssign(m, i, j) ==
    LET m1 == [m EXCEPT ![i + 1] = m[j + 1]]
    IN  [m1 EXCEPT ![j + 1] = i]

\* The arguments the single worker of the sequential runs is started with.
Jobs ==
    ({"Read"} \X (0..MaxLen)) \cup ({"RandIntn"} \X (-1..MaxIntn)) \cup ({"Perm"} \X (0..MaxPerm))

ConsensusIdle ==
    /\ MaturityDelay = TestingMaturityDelay
    /\ DEBUG = TRUE
    /\ tx = <<>>
    /\ fault = "none"
    /\ edits = 0
    /\ last = NoOp
    /\ result = NoCall

\* One goroutine calling one function, the fillers running.
InitRand ==
    /\ ConsensusIdle
    /\ HostIdle
    /\ entropyChan = <<>>
    /\ closed = FALSE
    /\ \E job \in Jobs : worker = <<AtSelect(job[1], job[2])>>

Workers == 1..Len(worker)

\* threadedFillEntropy: entropyChan <- result, for one value of result.
SendBlock(f, block) ==
    /\ Len(entropyChan) < ChanCap
    /\ entropyChan' = Append(entropyChan, block)
    /\ UNCHANGED <<consensusVars, hostVars, worker, closed>>

\* threadedFillEntropy: entropyChan <- result.
Send(f) == \E block \in Blocks : SendBlock(f, block)

\* close(closeChan).
Close ==
    /\ worker # <<>>
    /\ ~closed
    /\ closed' = TRUE
    /\ UNCHANGED <<consensusVars, hostVars, entropyChan, worker>>

\* The select of a worker when closeChan is closed: wg.Done() and return.
Exit(w) ==
    /\ worker[w].pc = "select"
    /\ closed
    /\ worker' = [worker EXCEPT ![w].pc = "done"]
    /\ UNCHANGED <<consensusVars, hostVars, entropyChan, closed>>

\* The default case of the select: the worker calls its function.
Call(w) ==
    /\ worker[w].pc = "select"
    /\ ~closed
    /\ LET st == worker[w]
       IN  worker' = [worker EXCEPT ![w] =
             CASE st.job = "Read" -> [st EXCEPT !.pc = "Read", !.b = Make(st.arg)]
               [] st.job = "RandIntn" -> enterRandIntn(st, st.arg)
               [] st.job = "Perm" -> [st EXCEPT !.pc = "Perm", !.m = Make(st.arg), !.i = 1]]
    /\ UNCHANGED <<consensusVars, hostVars, entropyChan, closed>>

\* A receive that leaves the block in the channel.
ReadStepPeek(w) ==
    /\ worker[w].pc = "Read"
    /\ worker[w].n < Len(worker[w].b)
    /\ entropyChan # <<>>
    /\ worker' = [worker EXCEPT ![w] = readIteration(worker[w], Head(entropyChan))]
    /\ UNCHANGED <<consensusVars, hostVars, entropyChan, closed>>

\* Read, n < len(b): entropy := <-entropyChan; n += copy(b, entropy[:]).
ReadStep(w) ==
    /\ worker[w].pc = "Read"
    /\ worker[w].n < Len(worker[w].b)
    /\ entropyChan # <<>>
    /\ worker' = [worker EXCEPT ![w] = readIteration(worker[w], Head(entropyChan))]
    /\ entropyChan' = Tail(entropyChan)
    /\ UNCHANGED <<consensusVars, hostVars, closed>>

\* Read, n >= len(b): return n, nil.
ReadReturn(w) ==
    /\ worker[w].pc = "Read"
    /\ worker[w].n >= Len(worker[w].b)
    /\ worker' = [worker EXCEPT ![w].pc = "returned", ![w].ret = worker[w].n]
    /\ UNCHANGED <<consensusVars, hostVars, entropyChan, closed>>

\* RandIntn: one sample (RandBytes(8), or Read(b) in the loop: 8 bytes are
\* one receive), then the test r >= max and, below max, the return of
\* r % n, to the worker or to Perm.
RandIntnStep(w) ==
    /\ worker[w].pc = "RandIntn"
    /\ entropyChan # <<>>
    /\ LET st == readIteration([worker[w] EXCEPT !.n = 0, !.written = {}], Head(entropyChan))
           r == Uint64(st.b)
           j == r % st.intn
       IN  worker' = [worker EXCEPT ![w] =
             IF r >= st.max
             THEN [st EXCEPT !.r = r]
             ELSE IF st.job = "Perm"
             THEN [st EXCEPT !.r = r, !.ret = j, !.pc = "Perm",
                             !.m = permAssign(st.m, st.i, j), !.i = st.i + 1]
             ELSE [st EXCEPT !.r = r, !.ret = j, !.pc = "returned"]]
    /\ entropyChan' = Tail(entropyChan)
    /\ UNCHANGED <<consensusVars, hostVars, closed>>

\* Perm: the test i < n, then the call of RandIntn(i + 1) or the return of m.
PermStep(w) ==
    /\ worker[w].pc = "Perm"
    /\ LET st == worker[w]
       IN  worker' = [worker EXCEPT ![w] =
             IF st.i < st.arg
             THEN enterRandIntn(st, st.i + 1)
             ELSE [st EXCEPT !.pc = "returned"]]
    /\ UNCHANGED <<consensusVars, hostVars, entropyChan, closed>>

\* The worker drops the result and loops to its select.
Loop(w) ==
    /\ worker[w].pc = "returned"
    /\ worker' = [worker EXCEPT ![w] = AtSelect(worker[w].job, worker[w].arg)]
    /\ UNCHANGED <<consensusVars, hostVars, entropyChan, closed>>

RandNext ==
    \/ \E f \in Fillers : Send(f)
    \/ Close
    \/ \E w \in Workers : Exit(w)
    \/ \E w \in Workers : Call(w)
    \/ \E w \in Workers : ReadStep(w)
    \/ \E w \in Workers : ReadReturn(w)
    \/ \E w \in Workers : RandIntnStep(w)
    \/ \E w \in Workers : PermStep(w)
    \/ \E w \in Workers : Loop(w)

SpecRand == InitRand /\ [][RandNext]_vars

----------------------------------------------------------------------------
\* Properties of Read, RandIntn and Perm.

\* Worker w has returned from a call of the function job.
Returned(w, job) == worker[w].job = job /\ worker[w].pc = "returned"

\* C14 as stated: Read on a buffer of any length L returns L, and every
\* position of the buffer, from the first to the last, has been written with
\* entropy.
C14_Original ==
    \A w \in Workers :
        Returned(w, "Read") =>
           /\ worker[w].ret = Len(worker[w].b)
           /\ worker[w].written = 1..Len(worker[w].b)

\* What Read does: every receive is copied to the start of the buffer, so
\* only the first HashSize positions are ever written, and the count
\* returned is the sum of the lengths copied: L up to HashSize, the next
\* multiple of HashSize above.
C14_ReadActual ==
    \A w \in Workers :
        Returned(w, "Read") =>
           LET L == Len(worker[w].b)
           IN  /\ worker[w].written = 1..Min(L, HashSize)
               /\ worker[w].ret = IF L <= HashSize
                                  THEN L
                                  ELSE HashSize * ((L + HashSize - 1) \div HashSize)

\* Read returned on a buffer longer than a block of entropy: the count is
\* larger than the buffer and the tail of the buffer was never written.
C14_Witness ==
    \E w \in Workers :
        /\ Returned(w, "Read")
        /\ Len(worker[w].b) = HashSize + 1
        /\ worker[w].ret = 2 * HashSize
        /\ (HashSize + 1) \notin worker[w].written

\* C15: for every n >= 0, whatever RandIntn returns, Perm(n) returns a slice
\* of length n in which each integer of 0..n-1 occurs exactly once.
C15_Permutation ==
    \A w \in Workers :
        Returned(w, "Perm") =>
           LET m == worker[w].m
               n == worker[w].arg
           IN  /\ Len(m) = n
               /\ \A v \in 0..(n - 1) : Cardinality({k \in 1..n : m[k] = v}) = 1
               /\ \A k \in 1..n : m[k] \in 0..(n - 1)

\* Perm returned a permutation of the largest length that moves every
\* integer.
C15_Witness ==
    \E w \in Workers :
        /\ Returned(w, "Perm")
        /\ worker[w].arg = MaxPerm
        /\ \A k \in 1..MaxPerm : worker[w].m[k] # k - 1

\* C16: RandIntn(n) panics exactly when n <= 0; for n > 0 the value it
\* returns is r % n for a sample r below MaxUint64 - MaxUint64 % n, so it is
\* at least 0 and below n, and a sample it did not accept is not below that
\* bound.
C16_RandIntn ==
    \A w \in Workers :
        worker[w].job = "RandIntn" =>
           LET st == worker[w]
               n == st.arg
           IN  /\ st.pc = "panicked" => n <= 0
               /\ n <= 0 => st.pc \in {"select", "panicked", "done"}
               /\ st.pc = "returned" =>
                    /\ n > 0
                    /\ st.r < MaxUint64 - (MaxUint64 % n)
                    /\ st.ret = st.r % n
                    /\ 0 <= st.ret /\ st.ret < n
               /\ (st.pc = "RandIntn" /\ st.entropy # <<>>) =>
                    /\ st.r = Uint64(st.entropy)
                    /\ st.r >= MaxUint64 - (MaxUint64 % n)

\* RandIntn returned for the largest argument on a sample that is not below
\* the argument.
C16_Witness ==
    \E w \in Workers :
        /\ Returned(w, "RandIntn")
        /\ worker[w].arg = MaxIntn
        /\ worker[w].r > worker[w].arg
        /\ worker[w].ret = worker[w].r % worker[w].arg

----------------------------------------------------------------------------
\* Concurrent use: the worker goroutines of TestRandConcurrent, scaled.

NumWorkers == 2

\* The functions the workers loop on: a Read of more than one block, Perm
\* (which calls RandIntn) and RandIntn.
ConcurrentJobs == <<(<<"Read", HashSize + 1>>), (<<"Perm", 2>>), (<<"RandIntn", 2>>)>>

ConcurrentJob(w) == ConcurrentJobs[((w - 1) % Len(ConcurrentJobs)) + 1]

\* The blocks the fillers produce in the concurrent runs: one whose first
\* word is below max for every n, one whose first word is MaxUint64.
ConcurrentBlocks == {[i \in 1..HashSize |-> 0], [i \in 1..HashSize |-> EntropyBase - 1]}

InitRandConcurrent ==
    /\ ConsensusIdle
    /\ HostIdle
    /\ entropyChan = <<>>
    /\ closed = FALSE
    /\ worker = [w \in 1..NumWorkers |-> AtSelect(ConcurrentJob(w)[1], ConcurrentJob(w)[2])]

\* RandIntn takes a sample below max.
RandIntnAccept(w) == RandIntnStep(w) /\ worker'[w].pc # "RandIntn"

ConcurrentNext ==
    \/ \E f \in Fillers : \E block \in ConcurrentBlocks : SendBlock(f, block)
    \/ Close
    \/ \E w \in Workers : Exit(w)
    \/ \E w \in Workers : Call(w)
    \/ \E w \in Workers : ReadStep(w)
    \/ \E w \in Workers : ReadReturn(w)
    \/ \E w \in Workers : RandIntnStep(w)
    \/ \E w \in Workers : PermStep(w)
    \/ \E w \in Workers : Loop(w)

\* A step of worker w that waits for nothing.
Run(w) == Exit(w) \/ Call(w) \/ ReadReturn(w) \/ PermStep(w) \/ Loop(w)

\* A step of worker w that receives from the channel.
Receive(w) == ReadStep(w) \/ RandIntnStep(w)

\* Scheduling: every goroutine that can run does run; a goroutine waiting to
\* receive is served when blocks keep arriving (receivers queue on the
\* channel).  Entropy: the fillers keep producing every value of a block,
\* and a call of RandIntn that keeps sampling does draw a value below max.
RandFairness ==
    /\ \A block \in ConcurrentBlocks : SF_vars(\E f \in Fillers : SendBlock(f, block))
    /\ \A w \in 1..NumWorkers :
         /\ WF_vars(Run(w))
         /\ SF_vars(Receive(w))
         /\ SF_vars(RandIntnAccept(w))

SpecRandFair == InitRandConcurrent /\ [][ConcurrentNext]_vars /\ RandFairness

\* Worker w is inside a call.
InCall(w) == worker[w].pc \in {"Read", "RandIntn", "Perm"}

\* Worker w obtains a block in this step: its Read advances, or its RandIntn
\* draws a sample that changes it.
Receives(w) ==
    \/ worker'[w].n > worker[w].n
    \/ worker[w].pc = "RandIntn" /\ worker'[w] # worker[w]

\* A worker that obtains a block obtains the block at the head of the
\* channel, which leaves the channel, and no other worker changes; when a
\* block leaves the channel, one receiving worker holds it and no other
\* worker changes.
ReceivedOnce ==
    /\ \A w \in DOMAIN worker :
         Receives(w) =>
            /\ entropyChan # <<>>
            /\ worker'[w].entropy = Head(entropyChan)
            /\ entropyChan' = Tail(entropyChan)
            /\ \A v \in DOMAIN worker : v # w => worker'[v] = worker[v]
    /\ Len(entropyChan') < Len(entropyChan) =>
         /\ entropyChan' = Tail(entropyChan)
         /\ \E w \in DOMAIN worker :
              /\ worker[w].pc \in {"Read", "RandIntn"}
              /\ worker'[w].entropy = Head(entropyChan)
              /\ \A v \in DOMAIN worker : v # w => worker'[v] = worker[v]

----------------------------------------------------------------------------
(***************************************************************************)
(* The settings of the host's contract manager (persist.go).  A salt is a  *)
(* number, the storage folders are a number (0 for no folders), and the    *)
(* dependencies loadFile and randRead, persist.SaveFileSync and wal.load   *)
(* succeed or fail as the caller of an action chooses.                     *)
(***************************************************************************)

NumSalts == 3
NumFolders == 1

Salts == 1..NumSalts
Folders == NoFolders..NumFolders

\* The settings files there can be.
Files == [exists : {TRUE}, SectorSalt : Salts, StorageFolders : Folders]

errCreatingSalt == "error creating salt for contract manager"
errSavingInit == "error saving contract manager after initialization"
errLoadingSettings == "error loading the contract manager settings file"
errLoadingWAL == "error loading the contract manager WAL"
errSavingSettings == "error saving contract manager settings"

\* build.ExtendErr(s, err): nil when err is nil.
ExtendErr(s, err) == IF err = Nil THEN Nil ELSE s

savedSettings(c) ==
    [exists |-> TRUE, SectorSalt |-> c.sectorSalt, StorageFolders |-> c.storageFolders]

\* persist.SaveFileSync: the file is written whole or not at all.
SaveFileSync(ss, d, save) ==
    IF save = "ok" THEN [disk |-> ss, err |-> Nil] ELSE [disk |-> d, err |-> "save failed"]

saveSync(c, d, save) ==
    LET ss == savedSettings(c)
        r == SaveFileSync(ss, d, save)
    IN  [cm |-> c, disk |-> r.disk, err |-> ExtendErr(errSavingSettings, r.err),
         salted |-> FALSE, saved |-> r.err = Nil, wal |-> <<>>]

\* initSettings: rand is what randRead wrote into cm.sectorSalt and whether
\* it failed.
initSettings(c, d, rand, save) ==
    LET c1 == [c EXCEPT !.sectorSalt = rand.salt]
        s == saveSync(c1, d, save)
    IN  IF rand.err
        THEN [cm |-> c1, disk |-> d, err |-> errCreatingSalt,
              salted |-> TRUE, saved |-> FALSE, wal |-> <<>>]
        ELSE [s EXCEPT !.err = ExtendErr(errSavingInit, s.err), !.salted = TRUE]

\* As load, but the WAL is loaded before the saved settings are copied.
loadWALFirst(c, d, file, rand, save, wal) ==
    LET c2 == [sectorSalt |-> d.SectorSalt, storageFolders |-> d.StorageFolders]
    IN  IF file = "notExist"
        THEN initSettings(c, d, rand, save)
        ELSE IF file = "error"
        THEN [cm |-> c, disk |-> d, err |-> errLoadingSettings,
              salted |-> FALSE, saved |-> FALSE, wal |-> <<>>]
        ELSE [cm |-> c2, disk |-> d,
              err |-> ExtendErr(errLoadingWAL, IF wal = "ok" THEN Nil ELSE "wal failed"),
              salted |-> FALSE, saved |-> FALSE, wal |-> <<c>>]

\* load: file is what loadFile returned (os.IsNotExist, another error, or
\* the decoded file), wal what wal.load returned.  The field wal of the
\* result is the contract manager wal.load ran on, if it ran.
load(c, d, file, rand, save, wal) ==
    LET c2 == [sectorSalt |-> d.SectorSalt, storageFolders |-> d.StorageFolders]
    IN  IF file = "notExist"
        THEN initSettings(c, d, rand, save)
        ELSE IF file = "error"
        THEN [cm |-> c, disk |-> d, err |-> errLoadingSettings,
              salted |-> FALSE, saved |-> FALSE, wal |-> <<>>]
        ELSE [cm |-> c2, disk |-> d,
              err |-> ExtendErr(errLoadingWAL, IF wal = "ok" THEN Nil ELSE "wal failed"),
              salted |-> FALSE, saved |-> FALSE, wal |-> <<c2>>]

\* What loadFile can return on a disk: the file is decoded only if it is
\* there, and is reported missing only if it is not.
FileOutcomes(d) == IF d.exists THEN {"ok", "error"} ELSE {"notExist", "error"}

\* What randRead can do to the salt of c: fill it, or fail having written
\* none, some or all of it.
RandOutcomes(c) ==
    [err : {FALSE}, salt : Salts] \cup [err : {TRUE}, salt : Salts \cup {c.sectorSalt}]

\* A new contract manager on a persist directory with or without a
\* settings file.
InitHost ==
    /\ ConsensusIdle
    /\ RandIdle
    /\ cm = NewContractManager
    /\ disk \in {NoFile} \cup Files
    /\ hostLast = NoHostCall

Done(op, r, loaded) ==
    /\ cm' = r.cm
    /\ disk' = r.disk
    /\ hostLast' = [op |-> op, err |-> r.err, cm |-> cm, disk |-> disk,
                    salted |-> r.salted, saved |-> r.saved, wal |-> r.wal,
                    loaded |-> loaded]
    /\ UNCHANGED <<consensusVars, randVars>>

\* cm.load().
Load ==
    \E file \in FileOutcomes(disk), rand \in RandOutcomes(cm) :
    \E save \in {"ok", "fail"}, wal \in {"ok", "fail"} :
        Done("load", load(cm, disk, file, rand, save, wal), TRUE)

\* cm.saveSync().
SaveSync ==
    \E save \in {"ok", "fail"} :
        Done("saveSync", saveSync(cm, disk, save), hostLast.loaded)

HostNext ==
    \/ Load
    \/ SaveSync

SpecHost == InitHost /\ [][HostNext]_vars

----------------------------------------------------------------------------
\* Properties of ContractManager.load.

\* The last call was load and ran initSettings: the salt was drawn, then
\* the settings were saved unless drawing failed, and the WAL was not loaded.
RanInitSettings ==
    /\ ~hostLast.disk.exists
    /\ hostLast.salted
    /\ hostLast.wal = <<>>
    /\ cm.storageFolders = hostLast.cm.storageFolders
    /\ IF hostLast.err = errCreatingSalt
       THEN ~hostLast.saved /\ disk = hostLast.disk
       ELSE /\ hostLast.err \in {Nil, errSavingInit}
            /\ hostLast.saved = (hostLast.err = Nil)
            /\ disk = (IF hostLast.saved THEN savedSettings(cm) ELSE hostLast.disk)

\* The last call was load and loadFile failed with another error.
LoadFailed ==
    /\ hostLast.err = errLoadingSettings
    /\ cm = hostLast.cm
    /\ disk = hostLast.disk
    /\ hostLast.wal = <<>>
    /\ ~hostLast.salted
    /\ ~hostLast.saved

\* The last call was load and the file was read: the settings were copied,
\* then the WAL was loaded on the contract manager that holds them.
LoadedSettings ==
    /\ hostLast.disk.exists
    /\ cm.sectorSalt = hostLast.disk.SectorSalt
    /\ cm.storageFolders = hostLast.disk.StorageFolders
    /\ hostLast.wal = <<cm>>
    /\ hostLast.err \in {Nil, errLoadingWAL}
    /\ disk = hostLast.disk
    /\ ~hostLast.salted
    /\ ~hostLast.saved

ThreeOutcomes == hostLast.op = "load" => (RanInitSettings \/ LoadFailed \/ LoadedSettings)

\* The salt in the settings file is the one it held before the last call.
FileSaltKept == disk.exists /\ disk.SectorSalt = hostLast.disk.SectorSalt

====
